---- MODULE Spec2Model ----
(***************************************************************************)
(* Model of the paging bootstrap of jtos (src/paging.c): the bit-packed    *)
(* page-table entry, the get-or-create walker, the region mapper, the      *)
(* identity-mapping policy over the EFI memory map, and activation.        *)
(*                                                                         *)
(* A 64-bit machine word is modelled as the set of the positions of its    *)
(* 1-bits (0x100000 is {20}): shifts, masks, additions and comparisons are *)
(* computed bit by bit, so that no 64-bit value has to fit a TLC integer.  *)
(* Physical memory is modelled sparsely: mem maps <<table address, index>> *)
(* to the entry stored there, and every cell outside DOMAIN mem is zero.   *)
(***************************************************************************)
EXTENDS Integers, Sequences, FiniteSets, TLC

VARIABLES
    pc,       \* position in setup_paging
    mm,       \* the EfiMemoryMap handed to setup_paging
    i,        \* loop counter of map_efi_regions
    md,       \* descriptor cursor of map_efi_regions (byte offset in the buffer)
    mem,      \* physical memory, as page-table cells
    pool,     \* frames the allocator can still hand out, in order
    handed,   \* frames the allocator has handed out, in order
    nfail,    \* number of pgalloc calls that found the allocator exhausted
    hist,     \* the order of the memory effects: "zero", "write", "cr3"
    cr3,      \* the translation-base register
    build,    \* what the compiler chose where the C standard leaves a choice
    vra,      \* map_region: the virtual address of the next page
    pra,      \* map_region: the physical address of the next page
    vrae,     \* map_region: the virtual end address
    call,     \* arguments of the operation under test (harness specifications)
    ret       \* its results

vars == <<pc, mm, i, md, mem, pool, handed, nfail, hist, cr3, build, vra, pra,
          vrae, call, ret>>

(***************************************************************************)
(* Machine words                                                           *)
(***************************************************************************)
WORD_BITS == 64
INT_BITS == 32
PAGE_SIZE_BITS == 12
PAGE_TABLE_SIZE == 512
PHY_BITS == 40

RECURSIVE Pow2(_)
Pow2(n) == IF n = 0 THEN 1 ELSE 2 * Pow2(n - 1)

\* The number a word of fewer than 31 bits denotes.
RECURSIVE Val(_)
Val(S) == IF S = {} THEN 0
          ELSE LET k == CHOOSE x \in S : TRUE IN Pow2(k) + Val(S \ {k})

\* The word of a number below 2^31.
Bits(n) == {k \in 0..30 : (n \div Pow2(k)) % 2 = 1}

\* a >> n
Shr(a, n) == {k - n : k \in {j \in a : j >= n}}

\* a << n, evaluated in a type of w bits
Shl(a, n, w) == {k + n : k \in {j \in a : j + n < w}}

\* conversion to an unsigned type of w bits
Trunc(a, w) == {k \in a : k < w}

\* conversion of a signed w-bit value to uint64_t
SignExt(a, w) == IF (w - 1) \in a THEN a \cup (w..(WORD_BITS - 1)) ELSE a

\* The carry into bit k of a + b: some lower bit generates a carry and every
\* bit between propagates it.
Carry(a, b, k) ==
    \E j \in 0..(k - 1) :
        /\ j \in a
        /\ j \in b
        /\ \A t \in (j + 1)..(k - 1) : t \in a \/ t \in b

\* a + b on uint64_t
Add64(a, b) ==
    {k \in 0..(WORD_BITS - 1) : ((k \in a) # (k \in b)) # Carry(a, b, k)}

\* a < b on uint64_t
Less(a, b) ==
    /\ a # b
    /\ LET d == (a \ b) \cup (b \ a)
           m == CHOOSE x \in d : \A y \in d : y <= x
       IN  m \in b

PAGE_SIZE == Shl({0}, PAGE_SIZE_BITS, WORD_BITS)

\* i * PAGE_SIZE for a small page index i
PageOff(n) == Shl(Bits(n), PAGE_SIZE_BITS, WORD_BITS)

(***************************************************************************)
(* Address decomposer                                                      *)
(***************************************************************************)
\* The LinAddr bit-field record: offset:12, pt:9, pd:9, pdpt:9, pml4:9 and
\* 16 unused high bits.
LinAddr(a) ==
    [offset |-> Val(Trunc(a, 12)),
     pt     |-> Val(Trunc(Shr(a, 12), 9)),
     pd     |-> Val(Trunc(Shr(a, 21), 9)),
     pdpt   |-> Val(Trunc(Shr(a, 30), 9)),
     pml4   |-> Val(Trunc(Shr(a, 39), 9))]

\* A decomposer that reads the address through a 32-bit object.
linaddr_low32(a) == LinAddr(Trunc(a, INT_BITS))

linaddr(a) == LinAddr(a)

(***************************************************************************)
(* Page-table entry codec                                                  *)
(***************************************************************************)
ZeroPe ==
    [p |-> 0, rw |-> 0, us |-> 0, pwt |-> 0, pcd |-> 0, a |-> 0, d |-> 0,
     pat_ps |-> 0, g |-> 0, ignored_0 |-> 0, phy |-> {}, ignored_1 |-> 0,
     pk |-> 0, xd |-> 0]

init_pe(pe, ppa) ==
    [pe EXCEPT !.phy = Trunc(Shr(ppa, PAGE_SIZE_BITS), PHY_BITS),
               !.p = 1,
               !.rw = 1]

\* pe->phy << PAGE_SIZE_BITS as get_pm computes it.  phy is a 40-bit
\* bit-field of declared type uint64_t: the type of the expression pe->phy
\* is implementation-defined.  gcc gives it the 40 bits of the field (the
\* shift then drops bits 40 and above), clang promotes it to uint64_t.
PhyToAddr(pe) == Shl(pe.phy, PAGE_SIZE_BITS, build.phy_shift_bits)

(***************************************************************************)
(* Physical memory and the frame allocator                                 *)
(***************************************************************************)
Pml4Addr == {22}

PeAt(m, pt, pi) == IF <<pt, pi>> \in DOMAIN m THEN m[<<pt, pi>>] ELSE ZeroPe

\* The machine state the mapping functions read and write.
Machine == [mem |-> mem, pool |-> pool, handed |-> handed, nfail |-> nfail,
            hist |-> hist]

Log(h, e) == IF h # <<>> /\ h[Len(h)] = e /\ e = "write" THEN h ELSE Append(h, e)

\* *pe = v, for the entry pe = &pt[pi]
StorePe(M, pt, pi, v) ==
    [M EXCEPT !.mem = [k \in DOMAIN M.mem \cup {<<pt, pi>>} |->
                          IF k = <<pt, pi>> THEN v ELSE M.mem[k]],
              !.hist = Log(M.hist, "write")]

\* The frame allocator: the next free frame, or NULL when none is left.
pgalloc(M) ==
    IF M.pool = <<>>
    THEN [M |-> [M EXCEPT !.nfail = M.nfail + 1], page |-> {}]
    ELSE [M |-> [M EXCEPT !.pool = Tail(M.pool),
                          !.handed = Append(M.handed, Head(M.pool))],
          page |-> Head(M.pool)]

(***************************************************************************)
(* Table-level walker and region mapper                                    *)
(***************************************************************************)
get_pm(M, pt, pi) ==
    LET pe == PeAt(M.mem, pt, pi)
    IN  IF pe.p = 0
        THEN LET r == pgalloc(M)
             IN  [M |-> StorePe(r.M, pt, pi, init_pe(pe, r.page)),
                  page |-> r.page]
        ELSE [M |-> M, page |-> PhyToAddr(pe)]

map_page_pt(M, pt, vpa, ppa) ==
    LET pi == linaddr(vpa).pt
    IN  StorePe(M, pt, pi, init_pe(PeAt(M.mem, pt, pi), ppa))

map_page_pd(M, pd, vpa, ppa) ==
    LET r == get_pm(M, pd, linaddr(vpa).pd)
    IN  map_page_pt(r.M, r.page, vpa, ppa)

map_page_pdpt(M, pdpt, vpa, ppa) ==
    LET r == get_pm(M, pdpt, linaddr(vpa).pdpt)
    IN  map_page_pd(r.M, r.page, vpa, ppa)

map_page_pml4(M, pml4, vpa, ppa) ==
    LET r == get_pm(M, pml4, linaddr(vpa).pml4)
    IN  map_page_pdpt(r.M, r.page, vpa, ppa)

\* np * PAGE_SIZE for int np, converted to uint64_t.  Where the product
\* overflows int the behaviour is undefined: the build either wraps it to 32
\* bits or computes it in 64 bits.  The two agree when it does not overflow.
MulPageSize(np) ==
    IF build.int_mul = "wide"
    THEN Shl(SignExt(np, INT_BITS), PAGE_SIZE_BITS, WORD_BITS)
    ELSE SignExt(Shl(np, PAGE_SIZE_BITS, INT_BITS), INT_BITS)

\* map_region up to its loop: the end address is computed and the loop
\* variables are set.
map_region(vra0, pra0, np) ==
    /\ vra' = vra0
    /\ pra' = pra0
    /\ vrae' = Add64(vra0, MulPageSize(np))
    /\ pc' = "map_region"

map_region_id(a, np) == map_region(a, a, np)

(***************************************************************************)
(* EFI memory map                                                          *)
(***************************************************************************)
EfiLoaderCode == 1
EfiLoaderData == 2
EfiConventionalMemory == 7
EfiMemoryMappedIO == 11
EFI_MEMORY_RUNTIME == {63}
DescriptorSize == 48

Descriptor(t, start, pages, attr) ==
    [Type |-> t, PhysicalStart |-> start, NumberOfPages |-> pages,
     Attribute |-> attr]

EfiMemoryMap(ds) ==
    [memory_map |-> ds, memory_map_size |-> Len(ds),
     descriptor_size |-> DescriptorSize]

\* The descriptor under the cursor.
DescAt(m, cursor) == m.memory_map[(cursor \div m.descriptor_size) + 1]

\* The cursor is inside the memory-map buffer.
InBuffer(m, cursor) == cursor < Len(m.memory_map) * m.descriptor_size

\* What the memory after the buffer may hold: nothing the program controls.
\* Two cases stand for it: zero bytes, and bytes that read as a LoaderData
\* descriptor of one page at 0x1000000.
BeyondBuffer ==
    {Descriptor(0, {}, {}, {}), Descriptor(EfiLoaderData, {24}, {0}, {})}

\* What *md reads: the descriptor under the cursor, or, past the end of the
\* buffer, one of the things memory may hold there.
DescsAt(m, cursor) ==
    IF InBuffer(m, cursor) THEN {DescAt(m, cursor)} ELSE BeyondBuffer

next_md(cursor, ds) == cursor + ds

\* The policy of map_efi_regions: which descriptors are identity-mapped.
Mapped(d) ==
    \/ d.Attribute \cap EFI_MEMORY_RUNTIME # {}
    \/ d.Type = EfiLoaderCode
    \/ d.Type = EfiLoaderData

(***************************************************************************)
(* setup_paging                                                            *)
(***************************************************************************)
\* memset(pml4, 0, sizeof(pml4))
ZeroRoot(m) == [k \in {c \in DOMAIN m : c[1] # Pml4Addr} |-> m[k]]

SetMachine(M) ==
    /\ mem' = M.mem
    /\ pool' = M.pool
    /\ handed' = M.handed
    /\ nfail' = M.nfail
    /\ hist' = M.hist

\* A setup that loads the register right after zeroing the root, before the
\* regions are mapped.
SetupPaging_enables_first ==
    /\ pc = "setup_paging"
    /\ mem' = ZeroRoot(mem)
    /\ cr3' = Pml4Addr
    /\ hist' = Log(Log(hist, "zero"), "cr3")
    /\ i' = 0
    /\ md' = 0
    /\ pc' = "map_efi_regions"
    /\ UNCHANGED <<mm, pool, handed, nfail, build, vra, pra, vrae, call, ret>>

SetupPaging ==
    /\ pc = "setup_paging"
    /\ mem' = ZeroRoot(mem)
    /\ hist' = Log(hist, "zero")
    /\ i' = 0
    /\ md' = 0
    /\ pc' = "map_efi_regions"
    /\ UNCHANGED <<mm, pool, handed, nfail, cr3, build, vra, pra, vrae, call, ret>>

\* One evaluation of the loop condition of map_efi_regions and, when it
\* holds, of the policy on the descriptor under the cursor.  The int
\* parameter np of map_region_id receives the UINT64 NumberOfPages.
MapEfiRegions ==
    /\ pc = "map_efi_regions"
    /\ \/ /\ i < mm.memory_map_size
          /\ \E d \in DescsAt(mm, md) :
                /\ Mapped(d)
                /\ map_region_id(d.PhysicalStart,
                                 Trunc(d.NumberOfPages, INT_BITS))
          /\ UNCHANGED <<i, md>>
       \/ /\ i < mm.memory_map_size
          /\ \E d \in DescsAt(mm, md) : ~Mapped(d)
          /\ i' = i + 1
          /\ md' = next_md(md, mm.descriptor_size)
          /\ UNCHANGED <<pc, vra, pra, vrae>>
       \/ /\ ~(i < mm.memory_map_size)
          /\ pc' = "enable_paging"
          /\ UNCHANGED <<i, md, vra, pra, vrae>>
    /\ UNCHANGED <<mm, mem, pool, handed, nfail, hist, cr3, build, call, ret>>

\* The loop of map_region while its condition holds: one page is mapped.
MapRegionPage ==
    /\ pc = "map_region"
    /\ Less(vra, vrae)
    /\ SetMachine(map_page_pml4(Machine, Pml4Addr, vra, pra))
    /\ vra' = Add64(vra, PAGE_SIZE)
    /\ pra' = Add64(pra, PAGE_SIZE)
    /\ UNCHANGED <<pc, mm, i, md, cr3, build, vrae, call, ret>>

\* The loop condition of map_region fails: map_region and map_region_id
\* return into the loop of map_efi_regions, which advances.
MapRegionReturn ==
    /\ pc = "map_region"
    /\ ~Less(vra, vrae)
    /\ i' = i + 1
    /\ md' = next_md(md, mm.descriptor_size)
    /\ pc' = "map_efi_regions"
    /\ UNCHANGED <<mm, mem, pool, handed, nfail, hist, cr3, build, vra, pra,
                   vrae, call, ret>>

enable_paging ==
    /\ pc = "enable_paging"
    /\ cr3' = Pml4Addr
    /\ hist' = Log(hist, "cr3")
    /\ pc' = "done"
    /\ UNCHANGED <<mm, i, md, mem, pool, handed, nfail, build, vra, pra, vrae,
                   call, ret>>

(***************************************************************************)
(* Initial states                                                          *)
(***************************************************************************)
MaxGarbage == 1

F1 == {21}
F2 == {21, 12}
F3 == {21, 13}
F4 == {21, 12, 13}
H1 == {40}
H2 == {40, 12}
H3 == {40, 13}

\* What the allocator has to give.
Pools == {<<>>, <<F1>>, <<F1, F2, F3>>, <<F1, F2, F3, F4>>, <<H1, H2, H3>>}

\* The register as the firmware left it.
FirmwareCr3 == {16}

\* Cells of memory that may hold a stale Present entry before setup_paging
\* runs: the allocator does not promise zeroed frames.
GarbageCells ==
    {[pt |-> Pml4Addr, pi |-> 0,   to |-> F3],
     [pt |-> F3,       pi |-> 272, to |-> {20, 16}],
     [pt |-> F3,       pi |-> 4,   to |-> {14}],
     [pt |-> F1,       pi |-> 0,   to |-> F1],
     [pt |-> F2,       pi |-> 0,   to |-> Pml4Addr],
     [pt |-> {},       pi |-> 0,   to |-> F4]}

GarbageMem(G) ==
    [k \in {<<g.pt, g.pi>> : g \in G} |->
        LET g == CHOOSE x \in G : <<x.pt, x.pi>> = k
        IN  [ZeroPe EXCEPT !.p = 1, !.a = 1,
                           !.phy = Shr(g.to, PAGE_SIZE_BITS)]]

InitialMemories ==
    {GarbageMem(G) : G \in {S \in SUBSET GarbageCells :
                               /\ Cardinality(S) <= MaxGarbage
                               /\ \A x, y \in S :
                                     (x.pt = y.pt /\ x.pi = y.pi) => x = y}}

Builds == [phy_shift_bits : {PHY_BITS, WORD_BITS}, int_mul : {"wrap", "wide"}]

\* 0x100000, 16 pages, LoaderData, no attribute
MapLoaderData ==
    EfiMemoryMap(<<Descriptor(EfiLoaderData, {20}, {4}, {})>>)

\* a runtime region, a LoaderCode region and a free region, in one page table
MapPolicy ==
    EfiMemoryMap(<<Descriptor(EfiMemoryMappedIO, {12}, {0}, EFI_MEMORY_RUNTIME),
                   Descriptor(EfiLoaderCode, {13}, {1}, {}),
                   Descriptor(EfiConventionalMemory, {14}, {0}, {})>>)

\* the page at address 0
MapPageZero ==
    EfiMemoryMap(<<Descriptor(EfiLoaderData, {}, {0}, {}),
                   Descriptor(EfiConventionalMemory, {12}, {0}, {3})>>)

MemoryMaps == {EfiMemoryMap(<<>>), MapLoaderData, MapPolicy, MapPageZero}

NoCall == [op |-> "none"]

\* const size_t kernel_est_size = 1024 * 1024
kernel_est_size == Shl({0}, 20, WORD_BITS)

\* The kernel bases handed to setup_paging: the image at 0x100000, either
\* identity-mapped or linked at 0xFFFFFFFF80000000.
KernelBases ==
    {[op |-> "setup_paging", kernel_pa |-> {20}, kernel_va |-> {20}],
     [op |-> "setup_paging", kernel_pa |-> {20},
      kernel_va |-> 31..(WORD_BITS - 1)]}

Init ==
    /\ pc = "setup_paging"
    /\ mm \in MemoryMaps
    /\ i = 0
    /\ md = 0
    /\ mem \in InitialMemories
    /\ pool \in Pools
    /\ handed = <<>>
    /\ nfail = 0
    /\ hist = <<>>
    /\ cr3 = FirmwareCr3
    /\ build \in Builds
    /\ vra = {}
    /\ pra = {}
    /\ vrae = {}
    /\ call \in KernelBases
    /\ ret = NoCall

Next ==
    \/ SetupPaging
    \/ MapEfiRegions
    \/ MapRegionPage
    \/ MapRegionReturn
    \/ enable_paging

Spec == Init /\ [][Next]_vars

(***************************************************************************)
(* Translation as the processor performs it                                *)
(***************************************************************************)
Range(q) == {q[k] : k \in 1..Len(q)}

\* The physical address an entry's frame-number field denotes.
FrameAddr(pe) == Shl(pe.phy, PAGE_SIZE_BITS, WORD_BITS)

\* The four-level walk of linear address v from the PML4 root.
Walk(m, v) ==
    LET la == LinAddr(v)
        e4 == PeAt(m, Pml4Addr, la.pml4)
        e3 == PeAt(m, FrameAddr(e4), la.pdpt)
        e2 == PeAt(m, FrameAddr(e3), la.pd)
        e1 == PeAt(m, FrameAddr(e2), la.pt)
    IN  IF e4.p = 1 /\ e3.p = 1 /\ e2.p = 1 /\ e1.p = 1
        THEN [present |-> TRUE, frame |-> FrameAddr(e1)]
        ELSE [present |-> FALSE, frame |-> {}]

TranslatesTo(m, v, p) == Walk(m, v) = [present |-> TRUE, frame |-> p]

\* The tables the Present entries of the tables in T refer to.
Children(m, T) ==
    {FrameAddr(m[c]) : c \in {x \in DOMAIN m : x[1] \in T /\ m[x].p = 1}}

Pdpts(m) == Children(m, {Pml4Addr})
Pds(m) == Children(m, Pdpts(m))

\* The cells of the PML4 and of every PDPT and PD reachable from it.
NonLeafCells(m) ==
    {c \in DOMAIN m : c[1] \in ({Pml4Addr} \cup Pdpts(m) \cup Pds(m))}

Activated == cr3 = Pml4Addr

(***************************************************************************)
(* Claims on setup_paging                                                  *)
(***************************************************************************)
\* The pages of a descriptor (page counts below 2^31).
PagesOf(d) ==
    {Add64(d.PhysicalStart, PageOff(k)) : k \in 0..(Val(d.NumberOfPages) - 1)}

Descriptors(m) == Range(m.memory_map)

NonOverlapping(m) ==
    \A j, k \in 1..Len(m.memory_map) :
        j # k => PagesOf(m.memory_map[j]) \cap PagesOf(m.memory_map[k]) = {}

\* Runtime-reserved, loader code or loader data.
Qualifies(d) ==
    \/ 63 \in d.Attribute
    \/ d.Type = EfiLoaderCode
    \/ d.Type = EfiLoaderData

\* C2: after map_efi_regions has run over non-overlapping descriptors, a
\* page of a descriptor is identity-mapped if and only if the descriptor is
\* runtime-reserved, LoaderCode or LoaderData; a page of any other
\* descriptor walks to a non-Present entry.
C2_PolicyExact ==
    (pc \in {"enable_paging", "done"} /\ NonOverlapping(mm)) =>
        \A d \in Descriptors(mm) : \A v \in PagesOf(d) :
            /\ Qualifies(d) => TranslatesTo(mem, v, v)
            /\ ~Qualifies(d) => ~Walk(mem, v).present

\* C3: setup_paging on the single descriptor {0x100000, 16 pages,
\* LoaderData} leaves 0x100000..0x10FFFF translating to themselves and
\* 0x110000 not present, whatever the allocator's frames held.
C3_EndToEnd ==
    (pc = "done" /\ mm = MapLoaderData) =>
        /\ \A k \in 0..15 :
              TranslatesTo(mem, Add64({20}, PageOff(k)), Add64({20}, PageOff(k)))
        /\ ~Walk(mem, {20, 16}).present

\* C5: once the allocator has failed to supply a frame, translation is never
\* activated and no Present entry of the PML4, a PDPT or a PD names a frame
\* the allocator did not hand out.
C5_ExhaustionHalts ==
    nfail > 0 =>
        /\ ~Activated
        /\ \A c \in NonLeafCells(mem) :
              mem[c].p = 1 => FrameAddr(mem[c]) \in Range(handed)

\* C8: after the root is zeroed and after every mapping operation, an entry
\* of the PML4, a PDPT or a PD reachable from the root is Present if and
\* only if its frame-number field names a frame the allocator handed out.
C8_NoDangling ==
    pc # "setup_paging" =>
        \A c \in NonLeafCells(mem) :
            mem[c].p = 1 <=> FrameAddr(mem[c]) \in Range(handed)

\* C9: the lifecycle only moves forward: the root is zeroed first and once,
\* entries are written only after that, the register is written once and
\* last, and the position in setup_paging agrees with it (Unpaged before the
\* zeroing, Active exactly when the register holds the root).
C9_Lifecycle ==
    /\ hist \in {<<>>, <<"zero">>, <<"zero", "write">>, <<"zero", "cr3">>,
                 <<"zero", "write", "cr3">>}
    /\ (pc = "setup_paging") <=> (hist = <<>>)
    /\ (pc = "done") <=> (hist # <<>> /\ hist[Len(hist)] = "cr3")
    /\ Activated <=> (pc = "done")
    /\ ~Activated => cr3 = FirmwareCr3

C9_Witness ==
    /\ pc = "done"
    /\ hist = <<"zero", "write", "cr3">>
    /\ Activated
    /\ mem # <<>>

\* C10: one call of setup_paging returns only with the register holding the
\* PML4 root, and never activates after the allocator has failed (the fatal
\* failure, after which the machine is to halt).
C10_ActiveOrHalted ==
    /\ pc = "done" => Activated
    /\ Activated => nfail = 0

(***************************************************************************)
(* The operations on their own: each specification below calls one         *)
(* operation on inputs drawn in its initial state.                         *)
(***************************************************************************)
MaxCalls == 2

\* The variables of setup_paging that a single operation does not use.
NoSetup ==
    /\ mm = EfiMemoryMap(<<>>)
    /\ i = 0
    /\ md = 0
    /\ cr3 = FirmwareCr3

\* Memory and allocator as setup_paging leaves them after zeroing the root.
RootZeroed ==
    /\ mem \in {ZeroRoot(m) : m \in InitialMemories}
    /\ pool \in Pools
    /\ handed = <<>>
    /\ nfail = 0
    /\ hist = <<"zero">>

\* ---- Address decomposer ----
LinAddrBits == {0, 11, 12, 20, 21, 29, 30, 38, 39, 47}

HighBits == 48..(WORD_BITS - 1)

LinAddrInputs == {lo \cup hi : lo \in SUBSET LinAddrBits, hi \in {{}, HighBits}}

LinAddrInit ==
    /\ pc = "call"
    /\ NoSetup
    /\ mem = <<>>
    /\ pool = <<>>
    /\ handed = <<>>
    /\ nfail = 0
    /\ hist = <<>>
    /\ build = [phy_shift_bits |-> WORD_BITS, int_mul |-> "wide"]
    /\ vra = {}
    /\ pra = {}
    /\ vrae = {}
    /\ call \in {[op |-> "linaddr", a |-> a] : a \in LinAddrInputs}
    /\ ret = NoCall

CallLinaddr ==
    /\ pc = "call"
    /\ ret' = linaddr(call.a)
    /\ pc' = "returned"
    /\ UNCHANGED <<mm, i, md, mem, pool, handed, nfail, hist, cr3, build, vra,
                   pra, vrae, call>>

SpecLinAddr == LinAddrInit /\ [][CallLinaddr]_vars

\* ---- Entry codec ----
PeAddrBits == {12, 13, 21, 31, 32, 39, 40, 51}

PeInputs == SUBSET PeAddrBits

\* The entries init_pe is applied to: a zero entry and a stale one.
PeEntries == {ZeroPe, [ZeroPe EXCEPT !.p = 1, !.a = 1, !.phy = {0, 39}]}

PeInit ==
    /\ pc = "call"
    /\ NoSetup
    /\ mem = <<>>
    /\ pool = <<>>
    /\ handed = <<>>
    /\ nfail = 0
    /\ hist = <<>>
    /\ build \in Builds
    /\ vra = {}
    /\ pra = {}
    /\ vrae = {}
    /\ call \in {[op |-> "init_pe", pe |-> e, ppa |-> a] :
                    e \in PeEntries, a \in PeInputs}
    /\ ret = NoCall

CallInitPe ==
    /\ pc = "call"
    /\ ret' = [pe |-> init_pe(call.pe, call.ppa)]
    /\ pc' = "encoded"
    /\ UNCHANGED <<mm, i, md, mem, pool, handed, nfail, hist, cr3, build, vra,
                   pra, vrae, call>>

\* The decoding get_pm performs on a Present entry.
DecodePe ==
    /\ pc = "encoded"
    /\ ret' = [pe |-> ret.pe, page |-> PhyToAddr(ret.pe)]
    /\ pc' = "decoded"
    /\ UNCHANGED <<mm, i, md, mem, pool, handed, nfail, hist, cr3, build, vra,
                   pra, vrae, call>>

SpecPe == PeInit /\ [][CallInitPe \/ DecodePe]_vars

\* ---- Walker ----
WalkerTables == {Pml4Addr, F1, {}}

WalkerIndices == {0, 1, PAGE_TABLE_SIZE - 1}

GetPmInit ==
    /\ pc = "call"
    /\ NoSetup
    /\ RootZeroed
    /\ build \in Builds
    /\ vra = {}
    /\ pra = {}
    /\ vrae = {}
    /\ call = NoCall
    /\ ret = <<>>

\* get_pm(pt, pi), the first call of a pair
CallGetPm ==
    /\ pc = "call"
    /\ Len(ret) < 2 * MaxCalls
    /\ \E pt \in WalkerTables, pi \in WalkerIndices :
          LET r == get_pm(Machine, pt, pi)
          IN  /\ SetMachine(r.M)
              /\ call' = [op |-> "get_pm", pt |-> pt, pi |-> pi,
                          present |-> PeAt(mem, pt, pi).p = 1,
                          handed |-> Len(handed), pool |-> Len(pool)]
              /\ ret' = Append(ret, r.page)
    /\ pc' = "call_again"
    /\ UNCHANGED <<mm, i, md, cr3, build, vra, pra, vrae>>

\* get_pm(pt, pi), again with the same arguments
CallGetPmAgain ==
    /\ pc = "call_again"
    /\ LET r == get_pm(Machine, call.pt, call.pi)
       IN  /\ SetMachine(r.M)
           /\ ret' = Append(ret, r.page)
    /\ pc' = "call"
    /\ UNCHANGED <<mm, i, md, cr3, build, vra, pra, vrae, call>>

SpecGetPm == GetPmInit /\ [][CallGetPm \/ CallGetPmAgain]_vars

\* ---- Region mapper ----
RegionArgs ==
    [vra : {{}, {12}, {39, 13}}, pra : {{20}, {13}}, np : {{0}, {1}}]

RegionInit ==
    /\ pc = "call"
    /\ NoSetup
    /\ RootZeroed
    /\ build \in Builds
    /\ vra = {}
    /\ pra = {}
    /\ vrae = {}
    /\ call = NoCall
    /\ ret = <<>>

\* map_region(vra, pra, np)
CallMapRegion ==
    /\ pc = "call"
    /\ Len(ret) < MaxCalls
    /\ \E a \in RegionArgs :
          /\ map_region(a.vra, a.pra, a.np)
          /\ call' = a
    /\ UNCHANGED <<mm, i, md, mem, pool, handed, nfail, hist, cr3, build, ret>>

\* The loop condition of map_region fails: it returns to its caller.
ReturnMapRegion ==
    /\ pc = "map_region"
    /\ ~Less(vra, vrae)
    /\ ret' = Append(ret, call)
    /\ pc' = "call"
    /\ UNCHANGED <<mm, i, md, mem, pool, handed, nfail, hist, cr3, build, vra,
                   pra, vrae, call>>

SpecRegion ==
    RegionInit /\ [][CallMapRegion \/ MapRegionPage \/ ReturnMapRegion]_vars

(***************************************************************************)
(* Claims on the single operations                                         *)
(***************************************************************************)
\* The pages map_region(c.vra, c.pra, c.np) is asked to map (small counts).
PageIndices(c) == 0..(Val(c.np) - 1)

VPages(c) == {Add64(c.vra, PageOff(k)) : k \in PageIndices(c)}

\* C1: when map_region(V, P, N) has returned and its range was not mapped
\* before, every page V + i*4096 of it walks through Present entries to a
\* Present leaf whose frame address is P + i*4096.
C1_RegionMapped ==
    (pc = "call" /\ ret # <<>>) =>
        LET c == ret[Len(ret)]
        IN  (\A j \in 1..(Len(ret) - 1) : VPages(ret[j]) \cap VPages(c) = {}) =>
                \A k \in PageIndices(c) :
                    TranslatesTo(mem, Add64(c.vra, PageOff(k)),
                                 Add64(c.pra, PageOff(k)))

\* C4: two consecutive calls of get_pm with the same table and index return
\* the same address and together take one frame from the allocator when the
\* entry was not Present, none when it was.
C4_WalkerIdempotent ==
    (pc = "call" /\ ret # <<>>) =>
        /\ ret[Len(ret)] = ret[Len(ret) - 1]
        /\ Len(handed) - call.handed = IF call.present THEN 0 ELSE 1

\* C6: for every 4096-aligned A below 2^52, the address get_pm decodes from
\* an entry that init_pe set for A is A, and the entry is Present; a zero
\* entry is not Present.
C6_CodecRoundTrip ==
    /\ ZeroPe.p = 0
    /\ pc \in {"encoded", "decoded"} => ret.pe.p = 1
    /\ pc = "decoded" => ret.page = call.ppa

Canonical(a) ==
    IF 47 \in a THEN HighBits \subseteq a ELSE HighBits \cap a = {}

\* (pml4 << 39) | (pdpt << 30) | (pd << 21) | (pt << 12) | offset
Recompose(l) ==
    Shl(Bits(l.pml4), 39, WORD_BITS) \cup Shl(Bits(l.pdpt), 30, WORD_BITS)
        \cup Shl(Bits(l.pd), 21, WORD_BITS) \cup Shl(Bits(l.pt), 12, WORD_BITS)
        \cup Bits(l.offset)

FieldsInRange(l) ==
    /\ l.pml4 \in 0..(PAGE_TABLE_SIZE - 1)
    /\ l.pdpt \in 0..(PAGE_TABLE_SIZE - 1)
    /\ l.pd \in 0..(PAGE_TABLE_SIZE - 1)
    /\ l.pt \in 0..(PAGE_TABLE_SIZE - 1)
    /\ l.offset \in 0..(Pow2(PAGE_SIZE_BITS) - 1)

\* C7 as stated: for every canonical address V the five fields recompose
\* to V, each index in [0, 512) and the offset in [0, 4096).
C7_LosslessCanonical ==
    (pc = "returned" /\ Canonical(call.a)) =>
        /\ Recompose(ret) = call.a
        /\ FieldsInRange(ret)

\* C7 amended: for every address V the five fields recompose to the low 48
\* bits of V, each index in [0, 512) and the offset in [0, 4096); so they
\* recompose to V itself exactly when bits 48..63 of V are clear, which for
\* a canonical V is the lower half (bit 47 clear).
C7_LosslessLow48 ==
    pc = "returned" =>
        /\ Recompose(ret) = Trunc(call.a, 48)
        /\ FieldsInRange(ret)
        /\ (Recompose(ret) = call.a) <=> (call.a \cap HighBits = {})
        /\ Canonical(call.a) => ((Recompose(ret) = call.a) <=> (47 \notin call.a))

C7_Witness ==
    /\ pc = "returned"
    /\ Canonical(call.a)
    /\ 47 \in call.a
    /\ ret.pml4 >= 256
    /\ Recompose(ret) # call.a

(***************************************************************************)
(* Claims on the frames of the tables                                      *)
(***************************************************************************)
\* The frames a step takes from the allocator.
NewFrames == {handed'[k] : k \in (Len(handed) + 1)..Len(handed')}

\* The cells whose entry a step changes.
ChangedCells ==
    {c \in DOMAIN mem \cup DOMAIN mem' : PeAt(mem', c[1], c[2]) # PeAt(mem, c[1], c[2])}

\* C11: a frame the allocator hands out for a PDPT, PD or PT holds only
\* all-zero, non-Present entries when the step that links it first reads or
\* writes it as a table, whatever the frame held before.
C11_FreshTablesZero ==
    [][\A f \in NewFrames :
          \A c \in DOMAIN mem : c[1] = f => mem[c] = ZeroPe]_vars

\* C12: get_pm on a Present entry changes no entry and nothing of the
\* allocator and returns the entry's frame number << 12; on a non-Present
\* entry it takes exactly one frame and changes that entry only.
C12_WalkerFrame ==
    [][pc' \in {"call", "call_again"} =>
          LET pe == PeAt(mem, call'.pt, call'.pi)
          IN  IF pe.p = 1
              THEN /\ mem' = mem
                   /\ pool' = pool
                   /\ handed' = handed
                   /\ nfail' = nfail
                   /\ ret'[Len(ret')] = FrameAddr(pe)
              ELSE /\ Cardinality(NewFrames) = 1
                   /\ Len(pool') = Len(pool) - 1
                   /\ ChangedCells \subseteq {<<call'.pt, call'.pi>>}]_vars

\* The pages the returned calls of map_region were asked to map.
MappedSoFar == UNION {VPages(ret[j]) : j \in 1..Len(ret)}

\* The index paths of the PDPTs, PDs and PTs the pages of V need.
Prefixes(V) ==
    {<<LinAddr(v).pml4>> : v \in V}
        \cup {<<LinAddr(v).pml4, LinAddr(v).pdpt>> : v \in V}
        \cup {<<LinAddr(v).pml4, LinAddr(v).pdpt, LinAddr(v).pd>> : v \in V}

\* C13: after any sequence of map_region calls the number of frames taken
\* from the allocator is the number of distinct (pml4), (pml4,pdpt) and
\* (pml4,pdpt,pd) index prefixes of the pages mapped so far, and a Present
\* entry of the PML4, a PDPT or a PD stays Present with the same child.
C13_TablesOncePerPath ==
    /\ [](pc = "call" => Len(handed) = Cardinality(Prefixes(MappedSoFar)))
    /\ [][\A c \in NonLeafCells(mem) :
             mem[c].p = 1 =>
                 /\ PeAt(mem', c[1], c[2]).p = 1
                 /\ PeAt(mem', c[1], c[2]).phy = mem[c].phy]_vars

(***************************************************************************)
(* map_efi_regions on one set of descriptors in two orders: setup_paging   *)
(* runs up to activation, then again from the same memory and allocator on *)
(* a permutation of the memory map.                                        *)
(***************************************************************************)
\* a LoaderData page, a LoaderCode page under another page table, and a free
\* page
OrderDescriptors ==
    <<Descriptor(EfiLoaderData, {12}, {0}, {}),
      Descriptor(EfiLoaderCode, {23}, {0}, {}),
      Descriptor(EfiConventionalMemory, {14}, {0}, {})>>

Reorderings(ds) ==
    {[k \in 1..Len(ds) |-> ds[f[k]]] :
        f \in {g \in [1..Len(ds) -> 1..Len(ds)] :
                  \A j, k \in 1..Len(ds) : j # k => g[j] # g[k]}}

OrderInit ==
    /\ pc = "setup_paging"
    /\ mm = EfiMemoryMap(OrderDescriptors)
    /\ i = 0
    /\ md = 0
    /\ mem \in InitialMemories
    /\ pool \in Pools
    /\ handed = <<>>
    /\ nfail = 0
    /\ hist = <<>>
    /\ cr3 = FirmwareCr3
    /\ build \in Builds
    /\ vra = {}
    /\ pra = {}
    /\ vrae = {}
    /\ call \in {[op |-> "reorder", mm |-> EfiMemoryMap(ds), mem |-> mem,
                  pool |-> pool] : ds \in Reorderings(OrderDescriptors)}
    /\ ret = NoCall

\* The first run has mapped its regions: its outcome is kept and
\* setup_paging starts again on the permuted map.
RunOtherOrder ==
    /\ pc = "enable_paging"
    /\ ret = NoCall
    /\ ret' = [op |-> "first", mem |-> mem, handed |-> handed]
    /\ mm' = call.mm
    /\ mem' = call.mem
    /\ pool' = call.pool
    /\ handed' = <<>>
    /\ nfail' = 0
    /\ hist' = <<>>
    /\ pc' = "setup_paging"
    /\ UNCHANGED <<i, md, cr3, build, vra, pra, vrae, call>>

SpecOrder ==
    OrderInit /\ [][SetupPaging \/ MapEfiRegions \/ MapRegionPage
                      \/ MapRegionReturn \/ RunOtherOrder]_vars

\* The pages whose translation is compared: those of the descriptors and
\* others under the same page tables.
OrderProbes ==
    {PageOff(k) : k \in {0, 1, 2, 4, 272}}
        \cup {Add64({23}, PageOff(k)) : k \in {0, 1, 2, 4, 272}}

\* C14: for two permutations of the same non-overlapping descriptors, the
\* pages present after map_efi_regions and the frame each translates to are
\* the same, and so is the number of frames taken from the allocator.
C14_OrderIndependent ==
    (pc = "enable_paging" /\ ret # NoCall) =>
        /\ \A v \in OrderProbes : Walk(mem, v) = Walk(ret.mem, v)
        /\ Len(handed) = Len(ret.handed)

(***************************************************************************)
(* Claims on the writes of entries                                         *)
(***************************************************************************)
\* The calls of init_pe in one pass of the loop of map_region: one per
\* get_pm that found its entry not Present, and the one of map_page_pt.
InitPeCalls == (Len(handed') - Len(handed)) + (nfail' - nfail) + 1

\* C15: during setup_paging every init_pe is applied to an all-zero entry,
\* so no entry is written twice, and it leaves the entry with only the frame
\* number, Present and Read/Write set.
C15_WriteOnce ==
    [][(pc = "map_region" /\ pc' = "map_region") =>
          /\ Cardinality(ChangedCells) = InitPeCalls
          /\ \A c \in ChangedCells :
                /\ PeAt(mem, c[1], c[2]) = ZeroPe
                /\ PeAt(mem', c[1], c[2]) =
                       [ZeroPe EXCEPT !.p = 1, !.rw = 1,
                                      !.phy = PeAt(mem', c[1], c[2]).phy]]_vars

\* The cell of the leaf entry the walk of linear address v arrives at.
LeafCell(m, v) ==
    LET la == LinAddr(v)
        e4 == PeAt(m, Pml4Addr, la.pml4)
        e3 == PeAt(m, FrameAddr(e4), la.pdpt)
        e2 == PeAt(m, FrameAddr(e3), la.pd)
    IN  <<FrameAddr(e2), la.pt>>

\* C16: when map_region(V, P2, 1) follows map_region(V, P1, 1), the second
\* call leaves the leaf entry of V Present with frame P2, takes no frame
\* from the allocator and changes no other entry.
C16_SecondWriteWins ==
    [][(/\ pc = "map_region"
        /\ pc' = "map_region"
        /\ ret # <<>>
        /\ call.np = {0}
        /\ ret[Len(ret)].np = {0}
        /\ ret[Len(ret)].vra = call.vra) =>
          /\ TranslatesTo(mem', call.vra, call.pra)
          /\ handed' = handed
          /\ pool' = pool
          /\ ChangedCells \subseteq {LeafCell(mem, call.vra)}]_vars

(***************************************************************************)
(* Claims on activation                                                    *)
(***************************************************************************)
\* The offsets of the pages of the kernel image.
KernelPages ==
    {PageOff(k) : k \in 0..(Val(Shr(kernel_est_size, PAGE_SIZE_BITS)) - 1)}

\* C17: when setup_paging has loaded the register, every page of the kernel
\* image at the kernel virtual base handed to setup_paging translates to the
\* page of the image at the kernel physical base.
C17_KernelMapped ==
    Activated =>
        \A o \in KernelPages :
            TranslatesTo(mem, Add64(call.kernel_va, o), Add64(call.kernel_pa, o))

(***************************************************************************)
(* setup_paging on memory maps as the firmware delivers them: page counts  *)
(* of 64 bits, and memory_map_size as GetMemoryMap reports it, in bytes.   *)
(***************************************************************************)
MaxPages == 2

\* The memory map with memory_map_size in bytes.
EfiMemoryMapBytes(ds) ==
    [EfiMemoryMap(ds) EXCEPT !.memory_map_size = Len(ds) * DescriptorSize]

FirmwareMaps ==
    {\* 0x100000, 2 pages
     EfiMemoryMap(<<Descriptor(EfiLoaderData, {20}, {1}, {})>>),
     \* 0x100000, 2^32 + 1 pages
     EfiMemoryMap(<<Descriptor(EfiLoaderData, {20}, {32, 0}, {})>>),
     \* 0x80000000, 2^19 pages
     EfiMemoryMap(<<Descriptor(EfiLoaderData, {31}, {19}, {})>>),
     \* 0x80000000000, 2^31 pages
     EfiMemoryMap(<<Descriptor(EfiLoaderData, {43}, {31}, {})>>),
     \* 0x100000, 1 page; the size in bytes
     EfiMemoryMapBytes(<<Descriptor(EfiLoaderData, {20}, {0}, {})>>)}

FirmwareInit ==
    /\ pc = "setup_paging"
    /\ mm \in FirmwareMaps
    /\ i = 0
    /\ md = 0
    /\ mem \in InitialMemories
    /\ pool \in Pools
    /\ handed = <<>>
    /\ nfail = 0
    /\ hist = <<>>
    /\ cr3 = FirmwareCr3
    /\ build \in Builds
    /\ vra = {}
    /\ pra = {}
    /\ vrae = {}
    /\ call \in {b \in KernelBases : b.kernel_va = b.kernel_pa}
    /\ ret = NoCall

\* The loop of map_region, followed only through regions of which at most
\* MaxPages pages remain.
MapRegionPageBounded ==
    /\ \E k \in 1..MaxPages : Add64(vra, PageOff(k)) = vrae
    /\ MapRegionPage

SpecFirmware ==
    FirmwareInit /\ [][SetupPaging \/ MapEfiRegions \/ MapRegionPageBounded
                         \/ MapRegionReturn \/ enable_paging]_vars

\* C18: for the descriptor under the cursor, the end address map_region
\* computes is PhysicalStart + NumberOfPages * 4096, with the 64-bit count
\* and without wrapping, and the loop ends at that address: NumberOfPages
\* leaf writes.
C18_ExactPageCount ==
    (pc = "map_region" /\ InBuffer(mm, md)) =>
        LET d == DescAt(mm, md)
            end == Add64(d.PhysicalStart,
                         Shl(d.NumberOfPages, PAGE_SIZE_BITS, WORD_BITS))
        IN  /\ vrae = end
            /\ ~Less(vra, vrae) => vra = end

\* C20: map_efi_regions reads a descriptor only inside the memory-map
\* buffer, and its loop has run once per descriptor of the map when it
\* ends.
C20_EachDescriptorOnce ==
    /\ (pc = "map_efi_regions" /\ i < mm.memory_map_size) => InBuffer(mm, md)
    /\ pc \in {"enable_paging", "done"} => i = Len(mm.memory_map)

\* Pages under the page tables map_region is called on.
RegionProbes ==
    {Add64(b, PageOff(k)) : b \in {{}, {39}}, k \in {0, 1, 2, 3, 4, 272}}

\* C19: a pass of the loop of map_region(V, P, N) leaves the translation of
\* every page outside [V, V + N*4096) as it was: mapped to the same frame,
\* or not present.
C19_OutsideUnchanged ==
    [][(pc = "map_region" /\ pc' = "map_region") =>
          \A v \in RegionProbes \ VPages(call) :
              Walk(mem', v) = Walk(mem, v)]_vars

====
